---- MODULE Spec2Model ----
(***************************************************************************)
(* Model of codegen/src/sqlstate.rs: the build-time generator that parses  *)
(* the errcodes table into a BTreeMap keyed by code and emits a header,    *)
(* one constant per entry and the from_code lookup through a BufWriter.    *)
(*                                                                         *)
(* Strings are sequences of one-character strings, so that starts_with,    *)
(* trim, split_whitespace, replace and the BTreeMap's key order are        *)
(* computed character by character as the code computes them.              *)
(***************************************************************************)
EXTENDS Integers, Sequences, FiniteSets

VARIABLES table, step, status, result, lineIdx, errors, constIdx,
          created, buf, disk, emitted

vars == <<table, step, status, result, lineIdx, errors, constIdx,
          created, buf, disk, emitted>>

----------------------------------------------------------------------------
(* Bounds *)

\* number of lines of the table text
MaxLines == 3

\* capacity of the BufWriter, counted in written parts
BufCap == 2

----------------------------------------------------------------------------
(* Characters and strings *)

\* the characters used, in ascending byte order (the order of String's Ord)
Chars ==
  << "\t", " ", "#",
     "0", "1", "2", "3", "4", "5", "6", "7", "8", "9", ":",
     "A", "B", "C", "D", "E", "F", "G", "H", "I", "J", "K", "L", "M",
     "N", "O", "P", "Q", "R", "S", "T", "U", "V", "W", "X", "Y", "Z", "_",
     "a", "b", "c", "d", "e", "f", "g", "h", "i", "j", "k", "l", "m",
     "n", "o", "p", "q", "r", "s", "t", "u", "v", "w", "x", "y", "z" >>

Ord(c) == CHOOSE i \in 1..Len(Chars) : Chars[i] = c

\* char::is_whitespace on the characters used
IsWhitespace(c) == c \in {" ", "\t"}

\* str < str: lexicographic by bytes, the order of BTreeMap<String, _>
RECURSIVE StrLess(_, _)
StrLess(a, b) ==
  IF b = <<>> THEN FALSE
  ELSE IF a = <<>> THEN TRUE
  ELSE IF Head(a) # Head(b) THEN Ord(Head(a)) < Ord(Head(b))
  ELSE StrLess(Tail(a), Tail(b))

\* str::starts_with
StartsWith(s, p) == Len(s) >= Len(p) /\ SubSeq(s, 1, Len(p)) = p

RECURSIVE TrimStart(_)
TrimStart(s) ==
  IF s # <<>> /\ IsWhitespace(Head(s)) THEN TrimStart(Tail(s)) ELSE s

RECURSIVE TrimEnd(_)
TrimEnd(s) ==
  IF s # <<>> /\ IsWhitespace(s[Len(s)])
  THEN TrimEnd(SubSeq(s, 1, Len(s) - 1)) ELSE s

\* str::trim
Trim(s) == TrimEnd(TrimStart(s))

\* str::split_whitespace, collected: the non-empty maximal runs of
\* non-whitespace characters, in order
RECURSIVE SplitFrom(_, _, _)
SplitFrom(s, cur, acc) ==
  IF s = <<>> THEN (IF cur = <<>> THEN acc ELSE Append(acc, cur))
  ELSE IF IsWhitespace(Head(s))
       THEN SplitFrom(Tail(s), <<>>, IF cur = <<>> THEN acc ELSE Append(acc, cur))
       ELSE SplitFrom(Tail(s), Append(cur, Head(s)), acc)

SplitWhitespace(s) == SplitFrom(s, <<>>, <<>>)

\* str::replace(pat, to): every non-overlapping match, left to right
RECURSIVE Replace(_, _, _)
Replace(s, pat, to) ==
  IF s = <<>> THEN <<>>
  ELSE IF StartsWith(s, pat)
       THEN to \o Replace(SubSeq(s, Len(pat) + 1, Len(s)), pat, to)
       ELSE <<Head(s)>> \o Replace(Tail(s), pat, to)

----------------------------------------------------------------------------
(* Literals of the program *)

PREFIX == <<"E", "R", "R", "C", "O", "D", "E", "_">>

SECTION == <<"S", "e", "c", "t", "i", "o", "n">>

COMMENT == <<"#">>

Kinds == {"Error", "Warning", "Success"}

SeverityTokens == {<<"E">>, <<"W">>, <<"S">>}

KindOf(tok) ==
  IF tok = <<"E">> THEN "Error"
  ELSE IF tok = <<"W">> THEN "Warning"
  ELSE "Success"

----------------------------------------------------------------------------
(* The table text: ERRCODES_TXT.lines() *)

Sp == <<" ">>

Row3(code, sev, name) == code \o Sp \o sev \o Sp \o name

\* "00000 S ERRCODE_SC"
LineSuccess == Row3(<<"0","0","0","0","0">>, <<"S">>, PREFIX \o <<"S","C">>)

\* "42601 E ERRCODE_SE s_e"
LineError ==
  Row3(<<"4","2","6","0","1">>, <<"E">>, PREFIX \o <<"S","E">>) \o Sp \o <<"s","_","e">>

\* "01000\tW  ERRCODE_W w_w extra"
LineWarning ==
  <<"0","1","0","0","0">> \o <<"\t">> \o <<"W">> \o Sp \o Sp \o PREFIX \o <<"W">>
    \o Sp \o <<"w","_","w">> \o Sp \o <<"e","x","t","r","a">>

\* "# c"
LineComment == <<"#", " ", "c">>

\* "Section: x"
LineSection == SECTION \o <<":", " ", "x">>

\* ""
LineEmpty == <<>>

\* " \t"
LineBlank == <<" ", "\t">>

\* " # c"
LineIndentedComment == <<" ", "#", " ", "c">>

\* "42601 E"
LineTwoFields == <<"4","2","6","0","1">> \o Sp \o <<"E">>

\* "42601 X ERRCODE_SE"
LineBadSeverity == Row3(<<"4","2","6","0","1">>, <<"X">>, PREFIX \o <<"S","E">>)

\* "4260 E ERRCODE_B"
LineShortCode == Row3(<<"4","2","6","0">>, <<"E">>, PREFIX \o <<"B">>)

\* "0A000 E ERRCODE_A_ERRCODE_B"
LineInnerPrefix ==
  Row3(<<"0","A","0","0","0">>, <<"E">>, PREFIX \o <<"A","_">> \o PREFIX \o <<"B">>)

\* "0B000 E ERRCODE_"
LineBarePrefix == Row3(<<"0","B","0","0","0">>, <<"E">>, PREFIX)

\* "0C000 S ERRCODE_SC"
LineSameName == Row3(<<"0","C","0","0","0">>, <<"S">>, PREFIX \o <<"S","C">>)

\* "00000 E ERRCODE_X"
LineSameCode == Row3(<<"0","0","0","0","0">>, <<"E">>, PREFIX \o <<"X">>)

LinePool ==
  { LineSuccess, LineError, LineWarning, LineComment, LineSection, LineEmpty,
    LineBlank, LineIndentedComment, LineTwoFields, LineBadSeverity,
    LineShortCode, LineInnerPrefix, LineBarePrefix, LineSameName, LineSameCode }

Tables == UNION { [1..n -> LinePool] : n \in 0..MaxLines }

----------------------------------------------------------------------------
(* parse_errors *)

\* the `continue` test of the loop
IsSkipped(line) ==
  \/ StartsWith(line, COMMENT)
  \/ StartsWith(line, SECTION)
  \/ Trim(line) = <<>>

\* an unknown severity token falls through to a default kind
RowFaults_NoSeverityCheck(f) ==
  \/ Len(f) < 1
  \/ Len(f) < 2
  \/ Len(f) < 3

\* the row panics: an unwrap() on a missing field, or unreachable!() on the
\* severity token
RowFaults(f) ==
  \/ Len(f) < 1
  \/ Len(f) < 2
  \/ f[2] \notin SeverityTokens
  \/ Len(f) < 3

\* Option<String>: <<>> is None, <<x>> is Some(x)
RowMessage(f) ==
  IF Len(f) >= 4 THEN << Replace(f[4], <<"_">>, <<" ">>) >> ELSE <<>>

\* the Error built from a row that does not panic
RowError(f) ==
  [ code    |-> f[1],
    kind    |-> KindOf(f[2]),
    name    |-> Replace(f[3], PREFIX, <<>>),
    message |-> RowMessage(f) ]

\* a map that keeps insertion order instead of key order
Insert_Unsorted(m, e) ==
  IF \E i \in 1..Len(m) : m[i].code = e.code
  THEN [i \in 1..Len(m) |-> IF m[i].code = e.code THEN e ELSE m[i]]
  ELSE Append(m, e)

\* BTreeMap::insert: the map is the sequence of its values in ascending key
\* order; an equal key has its value replaced
Insert(m, e) ==
  IF \E i \in 1..Len(m) : m[i].code = e.code
  THEN [i \in 1..Len(m) |-> IF m[i].code = e.code THEN e ELSE m[i]]
  ELSE LET k == Cardinality({i \in 1..Len(m) : StrLess(m[i].code, e.code)})
       IN SubSeq(m, 1, k) \o <<e>> \o SubSeq(m, k + 1, Len(m))

\* one iteration of the loop over the lines
ParseStep(m, line) ==
  IF IsSkipped(line) THEN [fault |-> FALSE, errors |-> m]
  ELSE LET f == SplitWhitespace(line)
       IN IF RowFaults(f) THEN [fault |-> TRUE, errors |-> m]
          ELSE [fault |-> FALSE, errors |-> Insert(m, RowError(f))]

\* the whole loop, from an empty map
RECURSIVE ParseFrom(_, _, _)
ParseFrom(m, tbl, i) ==
  IF i > Len(tbl) THEN [fault |-> FALSE, errors |-> m]
  ELSE LET r == ParseStep(m, tbl[i])
       IN IF r.fault THEN r ELSE ParseFrom(r.errors, tbl, i + 1)

ParseErrors(tbl) == ParseFrom(<<>>, tbl, 1)

----------------------------------------------------------------------------
(* The emitted parts *)

NoArms == <<>>

NoText == <<>>

\* make_header's line
HeaderPart ==
  [ part |-> "header", code |-> NoText, name |-> NoText, kind |-> "",
    message |-> NoText, doc |-> NoText, arms |-> NoArms ]

\* message = Some("x") or None
FmtMessage(msg) ==
  IF msg = <<>> THEN <<"N","o","n","e">>
  ELSE <<"S","o","m","e","(","\"">> \o msg[1] \o <<"\"",")">>

\* doc = "/// x" or the empty string
FmtDoc(msg) ==
  IF msg = <<>> THEN <<>> ELSE <<"/","/","/"," ">> \o msg[1]

\* Display for Error: pub const {name}: State = State { code, name, kind, message }
ConstPart(e) ==
  [ part |-> "const", code |-> e.code, name |-> e.name, kind |-> e.kind,
    message |-> FmtMessage(e.message), doc |-> FmtDoc(e.message),
    arms |-> NoArms ]

\* the match arms "{id}" => {name}, of from_code, in the map's order
FromCode(m) == [i \in 1..Len(m) |-> [code |-> m[i].code, name |-> m[i].name]]

\* impl State { pub fn from_code ... }
TypePart(m) ==
  [ part |-> "impl", code |-> NoText, name |-> NoText, kind |-> "",
    message |-> NoText, doc |-> NoText, arms |-> FromCode(m) ]

\* the whole artifact for a parsed map
Artifact(m) ==
  <<HeaderPart>> \o [i \in 1..Len(m) |-> ConstPart(m[i])] \o <<TypePart(m)>>

----------------------------------------------------------------------------
(* build *)

\* make_header called before parse_errors
BuildSteps_HeaderBeforeParse ==
  <<"create", "header", "parse", "consts", "type", "drop">>

\* make_type called before make_consts
BuildSteps_TypeBeforeConsts ==
  <<"create", "parse", "header", "type", "consts", "drop">>

\* the statements of build, in program order; the BufWriter goes out of
\* scope at the end
BuildSteps == <<"create", "parse", "header", "consts", "type", "drop">>

PosOf(name) == CHOOSE i \in 1..Len(BuildSteps) : BuildSteps[i] = name

At(name) ==
  /\ status = "running"
  /\ step <= Len(BuildSteps)
  /\ BuildSteps[step] = name

Init ==
  /\ table \in Tables
  /\ step = 1
  /\ status = "running"
  /\ result = "none"
  /\ lineIdx = 1
  /\ errors = <<>>
  /\ constIdx = 1
  /\ created = FALSE
  /\ buf = <<>>
  /\ disk = <<>>
  /\ emitted = <<>>

\* BufWriter::new(File::create(filename)?) succeeds: the file exists, empty
CreateFile ==
  /\ At("create")
  /\ created' = TRUE
  /\ step' = step + 1
  /\ UNCHANGED <<table, status, result, lineIdx, errors, constIdx, buf, disk, emitted>>

\* File::create(filename)? fails: build returns the error
CreateFileFails ==
  /\ At("create")
  /\ status' = "returned"
  /\ result' = "Err"
  /\ UNCHANGED <<table, step, lineIdx, errors, constIdx, created, buf, disk, emitted>>

\* Drop for BufWriter: the buffer is flushed and the outcome is discarded
DropFlush ==
  \E ok \in BOOLEAN :
    /\ disk' = IF ok THEN disk \o buf ELSE disk
    /\ buf' = <<>>

\* one iteration of the loop of parse_errors that does not panic
ParseLine ==
  /\ At("parse")
  /\ lineIdx <= Len(table)
  /\ ~ParseStep(errors, table[lineIdx]).fault
  /\ errors' = ParseStep(errors, table[lineIdx]).errors
  /\ lineIdx' = lineIdx + 1
  /\ UNCHANGED <<table, step, status, result, constIdx, created, buf, disk, emitted>>

\* an iteration that panics; unwinding drops the BufWriter
ParsePanic ==
  /\ At("parse")
  /\ lineIdx <= Len(table)
  /\ ParseStep(errors, table[lineIdx]).fault
  /\ status' = "panicked"
  /\ DropFlush
  /\ UNCHANGED <<table, step, result, lineIdx, errors, constIdx, created, emitted>>

\* parse_errors returns the map
ParseReturn ==
  /\ At("parse")
  /\ lineIdx > Len(table)
  /\ step' = step + 1
  /\ UNCHANGED <<table, status, result, lineIdx, errors, constIdx, created, buf, disk, emitted>>

\* write!(file, ...)? of one part: it goes to the buffer; a full buffer is
\* written to the file first, and if that write fails the error is returned
\* from build through `?`
Write(part, okStep, okResult) ==
  \E ok \in BOOLEAN :
    IF Len(buf) < BufCap
    THEN /\ ok
         /\ buf' = Append(buf, part)
         /\ emitted' = Append(emitted, part)
         /\ step' = okStep
         /\ result' = okResult
         /\ disk' = disk
    ELSE IF ok
    THEN /\ disk' = disk \o buf
         /\ buf' = <<part>>
         /\ emitted' = Append(emitted, part)
         /\ step' = okStep
         /\ result' = okResult
    ELSE /\ result' = "Err"
         /\ step' = PosOf("drop")
         /\ UNCHANGED <<buf, disk, emitted>>

\* make_header(&mut file)?
MakeHeader ==
  /\ At("header")
  /\ Write(HeaderPart, step + 1, result)
  /\ UNCHANGED <<table, status, lineIdx, errors, constIdx, created>>

\* one iteration of the loop of make_consts
MakeConst ==
  /\ At("consts")
  /\ constIdx <= Len(errors)
  /\ Write(ConstPart(errors[constIdx]), step, result)
  /\ constIdx' = IF result' = "Err" THEN constIdx ELSE constIdx + 1
  /\ UNCHANGED <<table, status, lineIdx, errors, created>>

\* make_consts returns Ok(())
MakeConstsReturn ==
  /\ At("consts")
  /\ constIdx > Len(errors)
  /\ step' = step + 1
  /\ UNCHANGED <<table, status, result, lineIdx, errors, constIdx, created, buf, disk, emitted>>

\* make_type(&errors, &mut file): its result is the result of build
MakeType ==
  /\ At("type")
  /\ Write(TypePart(errors), step + 1, "Ok")
  /\ UNCHANGED <<table, status, lineIdx, errors, constIdx, created>>

\* build returns: `file` goes out of scope
DropWriter ==
  /\ At("drop")
  /\ DropFlush
  /\ status' = "returned"
  /\ step' = Len(BuildSteps) + 1
  /\ UNCHANGED <<table, result, lineIdx, errors, constIdx, created, emitted>>

Next ==
  \/ CreateFile
  \/ CreateFileFails
  \/ ParseLine
  \/ ParsePanic
  \/ ParseReturn
  \/ MakeHeader
  \/ MakeConst
  \/ MakeConstsReturn
  \/ MakeType
  \/ DropWriter

Spec == Init /\ [][Next]_vars

TypeOK ==
  /\ status \in {"running", "panicked", "returned"}
  /\ result \in {"none", "Ok", "Err"}
  /\ step \in 1..(Len(BuildSteps) + 1)
  /\ lineIdx \in 1..(Len(table) + 1)
  /\ constIdx \in 1..(Len(errors) + 1)
  /\ Len(buf) <= BufCap

----------------------------------------------------------------------------
(* Properties *)

Fields(line) == SplitWhitespace(line)

ParseComplete == step > PosOf("parse")

IsConst(p) == p.part = "const"

IsImpl(p) == p.part = "impl"

EmittedConsts == SelectSeq(emitted, IsConst)

EmittedImpls == SelectSeq(emitted, IsImpl)

\* a data row with fewer than three fields or an unknown severity token
Malformed(line) ==
  /\ ~IsSkipped(line)
  /\ LET f == Fields(line)
     IN Len(f) < 3 \/ f[2] \notin SeverityTokens

\* C1: a table with a non-skipped row that has fewer than three fields or a
\* severity token other than E, W, S never gets past that row: the loop
\* does not move beyond it, parse_errors does not return a mapping, and
\* build does not return Ok.
C1_MalformedRowIsFatal ==
  \A i \in 1..Len(table) :
    \/ /\ lineIdx <= i
       /\ ~ParseComplete
       /\ result # "Ok"
       /\ (status = "returned" => result = "Err" /\ ~created)
    \/ ~Malformed(table[i])

\* a malformed row in a later position, after rows that were stored, has
\* made parse_errors panic
C1_Witness ==
  /\ status = "panicked"
  /\ lineIdx > 1
  /\ errors # <<>>
  /\ Malformed(table[lineIdx])

\* C2: when the table fails to parse, nothing has been written: no part was
\* handed to the writer, none is buffered and none is in the file.
C2_NoOutputOnParseFault ==
  status = "panicked" => (emitted = <<>> /\ buf = <<>> /\ disk = <<>>)

\* the panic happened on the last row of a table of two or more lines,
\* after the file was created
C2_Witness ==
  /\ status = "panicked"
  /\ created
  /\ Len(table) >= 2
  /\ lineIdx = Len(table)
  /\ disk = <<>>

\* the data rows of a table have pairwise distinct codes
DistinctCodes(tbl) ==
  \A i, j \in 1..Len(tbl) :
    (i # j /\ ~IsSkipped(tbl[i]) /\ ~IsSkipped(tbl[j]))
      => Fields(tbl[i])[1] # Fields(tbl[j])[1]

Reorderings(n) ==
  {p \in [1..n -> 1..n] : \A i, j \in 1..n : i # j => p[i] # p[j]}

Permuted(tbl, p) == [i \in 1..Len(tbl) |-> tbl[p[i]]]

\* the whole artifact has been emitted and build has returned Ok
Finished == status = "returned" /\ result = "Ok"

\* C3: the emitted constants are in strictly ascending order of their code,
\* a code that occurs in several rows is emitted once with the values of
\* its last row, the arms of from_code are in the order of the constants,
\* and the finished artifact is the same for every permutation of a table
\* whose rows have distinct codes.
C3_AscendingCodeOrder ==
  /\ \A i, j \in 1..Len(EmittedConsts) :
       i < j => StrLess(EmittedConsts[i].code, EmittedConsts[j].code)
  /\ \A k \in 1..Len(EmittedImpls) :
       /\ Len(EmittedImpls[k].arms) = Len(EmittedConsts)
       /\ \A i \in 1..Len(EmittedConsts) :
            EmittedImpls[k].arms[i].code = EmittedConsts[i].code
  /\ Finished =>
       \A i \in 1..Len(table) :
         ( /\ ~IsSkipped(table[i])
           /\ \A j \in (i + 1)..Len(table) :
                IsSkipped(table[j]) \/ Fields(table[j])[1] # Fields(table[i])[1] )
         => \E k \in 1..Len(EmittedConsts) :
              EmittedConsts[k] = ConstPart(RowError(Fields(table[i])))
  /\ (Finished /\ DistinctCodes(table)) =>
       \A p \in Reorderings(Len(table)) :
         LET r == ParseErrors(Permuted(table, p))
         IN ~r.fault /\ Artifact(r.errors) = emitted

\* a table whose rows come in descending code order was emitted in full
\* and build returned Ok
C3_Witness ==
  /\ Finished
  /\ Len(EmittedConsts) >= 2
  /\ disk = emitted
  /\ \E i \in 1..Len(table) : \E j \in (i + 1)..Len(table) :
       /\ ~IsSkipped(table[i])
       /\ ~IsSkipped(table[j])
       /\ StrLess(Fields(table[j])[1], Fields(table[i])[1])

\* C4: for every arm of the emitted from_code, the constant the arm names
\* exists and every emitted constant of that name has the arm's code.
C4_RoundTrip ==
  \A k \in 1..Len(EmittedImpls) :
    \A a \in 1..Len(EmittedImpls[k].arms) :
      LET arm == EmittedImpls[k].arms[a]
          named == {i \in 1..Len(EmittedConsts) : EmittedConsts[i].name = arm.name}
      IN /\ named # {}
         /\ \A i \in named : EmittedConsts[i].code = arm.code

CodeChars ==
  { "0", "1", "2", "3", "4", "5", "6", "7", "8", "9",
    "A", "B", "C", "D", "E", "F", "G", "H", "I", "J", "K", "L", "M",
    "N", "O", "P", "Q", "R", "S", "T", "U", "V", "W", "X", "Y", "Z" }

\* C5: every entry of the map has a code of exactly five characters, each
\* in [0-9A-Z].
C5_CodeShape ==
  \A i \in 1..Len(errors) :
    /\ Len(errors[i].code) = 5
    /\ \A c \in 1..Len(errors[i].code) : errors[i].code[c] \in CodeChars

\* C6: when build has returned Ok, every part handed to the writer is in
\* the file.
C6_IOFailurePropagates ==
  (status = "returned" /\ result = "Ok") => disk = emitted

\* the parts are emitted in the order header, constants, lookup, each once
EmittedInOrder ==
  /\ Len(emitted) <= Len(Artifact(errors))
  /\ emitted = SubSeq(Artifact(errors), 1, Len(emitted))

\* a run that returned Ok went through every step and emitted every part
DoneIsComplete ==
  (status = "returned" /\ result = "Ok") =>
    (step = Len(BuildSteps) + 1 /\ emitted = Artifact(errors))

C7_Order ==
  /\ (emitted # <<>> \/ buf # <<>> \/ disk # <<>>) => (created /\ ParseComplete)
  /\ EmittedInOrder
  /\ DoneIsComplete
  /\ status = "running" => step <= Len(BuildSteps)

\* every step moves the run forward: to a later statement of build, a later
\* line or entry of a loop, or the end of the run
C7_Advances ==
  \/ step' > step
  \/ (step' = step /\ lineIdx' > lineIdx)
  \/ (step' = step /\ constIdx' > constIdx)
  \/ status' \in {"panicked", "returned"}

C8_PrefixStripped ==
  (lineIdx > 1 /\ ~IsSkipped(table[lineIdx - 1])
     /\ StartsWith(Fields(table[lineIdx - 1])[3], PREFIX)) =>
    LET f == Fields(table[lineIdx - 1])
    IN \E k \in 1..Len(errors) :
         /\ errors[k].code = f[1]
         /\ errors[k].name = SubSeq(f[3], Len(PREFIX) + 1, Len(f[3]))

\* skipped when read without regard to leading whitespace
SkippedIgnoringIndent(line) ==
  \/ TrimStart(line) = <<>>
  \/ StartsWith(TrimStart(line), COMMENT)
  \/ StartsWith(TrimStart(line), SECTION)

\* C9: an empty line, a comment line and a section line, with or without
\* leading whitespace, cause no fault and add no entry: a panic is never on
\* such a line, and the returned map has one entry per distinct code of the
\* other lines.
C9_SkippedLines ==
  /\ status = "panicked" => ~SkippedIgnoringIndent(table[lineIdx])
  /\ ParseComplete =>
       Len(errors) =
         Cardinality({ Fields(table[i])[1] :
                         i \in {j \in 1..Len(table) : ~SkippedIgnoringIndent(table[j])} })

\* C10: every entry of the returned map has a non-empty code and a
\* non-empty identifier.
C10_NonEmptyFields ==
  ParseComplete =>
    \A i \in 1..Len(errors) : errors[i].code # <<>> /\ errors[i].name # <<>>

====
